---- MODULE Spec2Model ----
(***************************************************************************)
(* A model of runner_chaser.py: the grid geometry, the A* planner with its *)
(* cached path, the two players (chaser, runner) and the game's turn loop. *)
(* Positions are pairs <<x, y>>; a dict is a function on its key set; a    *)
(* Python list is a sequence; None for a path is the empty sequence.       *)
(***************************************************************************)
EXTENDS Integers, Sequences, FiniteSets, TLC

VARIABLES
    size,          \* Grid.size, the pair <<width, height>>
    WALLS,         \* the module-level list WALLS, as a set of positions
    win_score,     \* Game.win_score
    runner,        \* Game.runner: [position, score, max_moves_per_turn]
    chaser,        \* Game.chaser: [position, score, max_moves_per_turn]
    apples,        \* Game.apples: sequence of [position, shelf_life]
    p_runner,      \* RunnerPlayer: [path, path_progress, avoid_set, target_character]
    p_chaser,      \* ChaserPlayer: [path, path_progress, avoid_set, target_character]
    pc,            \* position in the __main__ turn loop
    outcome,       \* how the loop ended, or "continuing"
    turn,          \* number of completed loop iterations
    call,          \* record of the latest find_path call of each player
    search,        \* the planner's loop state (open_set, closed_set, came_from, ...)
    inputs,        \* the inputs of the search in progress
    mv,            \* record of the latest direct call of MovingCharacter.move
    tk             \* record of the latest call of Game.tick

vars == <<size, WALLS, win_score, runner, chaser, apples, p_runner, p_chaser,
          pc, outcome, turn, call, search, inputs, mv, tk>>

(***************************************************************************)
(* Bounds of the model.                                                    *)
(***************************************************************************)
\* grid_size of the game (80 x 45 in __main__)
GridW == 5
GridH == 3
\* turns the loop is followed for
MaxTurns == 3
\* shelf life given to a new apple (160 in the source)
ShelfLife == 2
\* win_score the game is constructed with (100 in __main__)
WinScore == 2
\* the grid and the number of wall cells of the searches followed step by step
SearchW == 3
SearchH == 3
MaxWalls == 2
\* how far outside the grid a proposed move may lie
MoveMargin == 1
\* The geometry functions are applied on a GeomW x GeomH grid with step budgets
\* and radii 1 .. MaxBudget, up to MaxAvoid avoided cells and one wall.
GeomW == 3
GeomH == 3
MaxBudget == 3
MaxAvoid == 2

(***************************************************************************)
(* Program constants.                                                      *)
(***************************************************************************)
APPLE_COUNT == 2
RUNNER_MOVES == 2
CHASER_MOVES == 1
CHASER_DANGER_ZONE == 3
AVOID_RADIUS == 2

Abs(n) == IF n < 0 THEN -n ELSE n

Cells(sz) == (0 .. sz[1] - 1) \X (0 .. sz[2] - 1)

(***************************************************************************)
(* Grid                                                                    *)
(***************************************************************************)
contains_coords(sz, coords) ==
    (coords[1] < sz[1] /\ coords[2] < sz[2]) /\ (coords[1] >= 0 /\ coords[2] >= 0)

\* Variant: the quotient of two integers, rounded down.
distance_floor(a, b, moves_per_turn) ==
    LET xdiff == Abs(a[1] - b[1])
        ydiff == Abs(a[2] - b[2])
    IN  (xdiff + ydiff) \div moves_per_turn

\* ceil(float(xdiff + ydiff) / float(moves_per_turn))
distance(a, b, moves_per_turn) ==
    LET xdiff == Abs(a[1] - b[1])
        ydiff == Abs(a[2] - b[2])
    IN  ((xdiff + ydiff) + moves_per_turn - 1) \div moves_per_turn

\* The candidate cells in the order the two loops produce them: ring i = 0 ..
\* radius-1, and in each ring +x, -x, +y, -y.
ray_coords(coords, radius) ==
    [k \in 1 .. 4 * radius |->
        LET i == (k - 1) \div 4
            j == (k - 1) % 4
        IN  CASE j = 0 -> <<coords[1] + 1 + i, coords[2]>>
              [] j = 1 -> <<coords[1] - (1 + i), coords[2]>>
              [] j = 2 -> <<coords[1], coords[2] + 1 + i>>
              [] OTHER -> <<coords[1], coords[2] - (1 + i)>>]

\* Variant: one ring too many (xrange(radius + 1)).
surrounding_valid_coords_extra_ring(sz, walls, coords, radius, avoid_set) ==
    LET avoid == avoid_set \cup walls
        keep(c) == contains_coords(sz, c) /\ c \notin avoid
    IN  SelectSeq(ray_coords(coords, radius + 1), keep)

\* Variant: a ray ends at its first wall or avoided cell.
surrounding_valid_coords_blocked_rays(sz, walls, coords, radius, avoid_set) ==
    LET avoid == avoid_set \cup walls
        between(c) == {d \in Cells(sz) \ {coords} :
                          /\ Abs(d[1] - coords[1]) <= Abs(c[1] - coords[1])
                          /\ Abs(d[2] - coords[2]) <= Abs(c[2] - coords[2])
                          /\ (d[1] - coords[1]) * (c[1] - coords[1]) >= 0
                          /\ (d[2] - coords[2]) * (c[2] - coords[2]) >= 0}
        keep(c) == contains_coords(sz, c) /\ between(c) \cap avoid = {}
    IN  SelectSeq(ray_coords(coords, radius), keep)

\* The returned list. The walls have been added to avoid_set before the loop.
surrounding_valid_coords(sz, walls, coords, radius, avoid_set) ==
    LET avoid == avoid_set \cup walls
        keep(c) == contains_coords(sz, c) /\ c \notin avoid
    IN  SelectSeq(ray_coords(coords, radius), keep)

\* Grid.direction: the pair (primary, secondary) of Grid.Direction values.
direction(a, b) ==
    LET xdiff == a[1] - b[1]
        ydiff == a[2] - b[2]
    IN  IF xdiff >= ydiff
        THEN <<IF xdiff >= 0 THEN "WEST" ELSE "EAST",
               IF ydiff >= 0 THEN "NORTH" ELSE "SOUTH">>
        ELSE <<IF ydiff >= 0 THEN "NORTH" ELSE "SOUTH",
               IF xdiff >= 0 THEN "WEST" ELSE "EAST">>

\* Variant: x moves first when the two offsets are equal.
next_pos_x_first(a, b, max_moves_per_turn) ==
    LET diff_x == Abs(a[1] - b[1])
        diff_y == Abs(a[2] - b[2])
    IN  IF diff_y > diff_x
        THEN LET moves == IF max_moves_per_turn > diff_y THEN diff_y ELSE max_moves_per_turn
             IN  IF a[2] < b[2] THEN <<a[1], a[2] + moves>> ELSE <<a[1], a[2] - moves>>
        ELSE LET moves == IF max_moves_per_turn > diff_x THEN diff_x ELSE max_moves_per_turn
             IN  IF a[1] < b[1] THEN <<a[1] + moves, a[2]>> ELSE <<a[1] - moves, a[2]>>

\* Grid.next_pos.
next_pos(a, b, max_moves_per_turn) ==
    LET diff_x == Abs(a[1] - b[1])
        diff_y == Abs(a[2] - b[2])
    IN  IF diff_y >= diff_x
        THEN LET moves == IF max_moves_per_turn > diff_y THEN diff_y ELSE max_moves_per_turn
             IN  IF a[2] < b[2] THEN <<a[1], a[2] + moves>> ELSE <<a[1], a[2] - moves>>
        ELSE LET moves == IF max_moves_per_turn > diff_x THEN diff_x ELSE max_moves_per_turn
             IN  IF a[1] < b[1] THEN <<a[1] + moves, a[2]>> ELSE <<a[1] - moves, a[2]>>

(***************************************************************************)
(* Player: the planner                                                     *)
(***************************************************************************)
\* Variant: f is the estimate less the cost (self.f = h - g).
AStarNode_f_h_minus_g(pos, g, h) == [pos |-> pos, f |-> h - g, g |-> g, h |-> h]

AStarNode(pos, g, h) == [pos |-> pos, f |-> g + h, g |-> g, h |-> h]

RECURSIVE heuristic_loop(_, _, _, _)
heuristic_loop(pos, target_coords, max_moves, cost) ==
    IF pos = target_coords THEN cost
    ELSE heuristic_loop(next_pos(pos, target_coords, max_moves), target_coords,
                        max_moves, cost + 1)

\* Variant: the cells between the two positions are counted, whatever the budget.
heuristic_distance_in_cells(target_coords, from_coords, max_moves) ==
    heuristic_loop(from_coords, target_coords, 1, 0)

heuristic_distance(target_coords, from_coords, max_moves) ==
    heuristic_loop(from_coords, target_coords, max_moves, 0)

create_a_star_node(nc, pos, target_coords, max_moves) ==
    AStarNode(pos, distance(nc.pos, pos, max_moves) + nc.g,
              heuristic_distance(target_coords, pos, max_moves))

EmptyDict == [k \in {} |-> k]
Put(d, k, v) == [x \in (DOMAIN d) \cup {k} |-> IF x = k THEN v ELSE d[x]]
Del(d, k) == [x \in (DOMAIN d) \ {k} |-> d[x]]

\* Variant: the list is built from the target back to the start.
RECURSIVE reconstruct_path_target_first(_, _)
reconstruct_path_target_first(came_from, nc) ==
    IF nc.pos \in DOMAIN came_from
    THEN <<nc>> \o reconstruct_path_target_first(came_from, came_from[nc.pos])
    ELSE <<nc>>

RECURSIVE reconstruct_path(_, _)
reconstruct_path(came_from, nc) ==
    IF nc.pos \in DOMAIN came_from
    THEN Append(reconstruct_path(came_from, came_from[nc.pos]), nc)
    ELSE <<nc>>

\* The state of one run of the search loop of find_path; iterations counts the
\* passes through "while len(open_set)", overwritten holds the positions whose
\* came_from entry has been replaced.
start_search(start_pos, target_coords, max_moves) ==
    LET start_node == AStarNode(start_pos, 0,
                                heuristic_distance(target_coords, start_pos, max_moves))
    IN  [open_set |-> Put(EmptyDict, start_pos, start_node),
         closed_set |-> EmptyDict,
         came_from |-> EmptyDict,
         start_node |-> start_node,
         status |-> "running",
         path |-> <<>>,
         iterations |-> 0,
         overwritten |-> {}]

\* Variant: any open node may be expanded, whatever its f.
least_f_any_open(open_set) == DOMAIN open_set

\* The keys sorted(open_set.iteritems(), key=f)[0] may be: the sort is stable on
\* the dict's iteration order, which the hash table decides, so any node of
\* least f can come first.
least_f(open_set) ==
    {p \in DOMAIN open_set : \A q \in DOMAIN open_set : open_set[p].f <= open_set[q].f}

\* The body of "for ns in node_successors", from the i-th successor on.
RECURSIVE successors_loop(_, _, _, _, _)
successors_loop(succ, i, nc, st, target_coords) ==
    IF i > Len(succ) THEN st
    ELSE
      LET ns == succ[i]
          in_closed_set == ns.pos \in DOMAIN st.closed_set
      IN  IF in_closed_set /\ ns.g >= st.closed_set[ns.pos].g
          THEN successors_loop(succ, i + 1, nc, st, target_coords)
          ELSE IF ns.pos \in DOMAIN st.open_set /\ ns.g >= st.open_set[ns.pos].g
          THEN successors_loop(succ, i + 1, nc, st, target_coords)
          ELSE
            LET closed1 == IF in_closed_set THEN Del(st.closed_set, ns.pos)
                           ELSE st.closed_set
                came1 == Put(st.came_from, ns.pos, nc)
                over1 == IF ns.pos \in DOMAIN st.came_from
                         THEN st.overwritten \cup {ns.pos} ELSE st.overwritten
            IN  IF ns.pos = target_coords
                THEN [st EXCEPT !.closed_set = closed1, !.came_from = came1,
                                !.overwritten = over1,
                                !.status = "found",
                                !.path = reconstruct_path(came1, ns)]
                ELSE successors_loop(succ, i + 1, nc,
                        [st EXCEPT !.closed_set = closed1, !.came_from = came1,
                                   !.overwritten = over1,
                                   !.open_set = Put(@, ns.pos, ns)],
                        target_coords)

\* Variant: the fallback returns the node expanded last (return [nc]).
search_iteration_returns_last(st, nc_pos, target_coords, max_moves, sz, walls, avoid_set) ==
    LET nc == st.open_set[nc_pos]
        st1 == [st EXCEPT !.open_set = Del(@, nc_pos),
                          !.closed_set = Put(@, nc_pos, nc),
                          !.iterations = @ + 1]
        coords == surrounding_valid_coords(sz, walls, nc.pos, max_moves, avoid_set)
        node_successors == [k \in 1 .. Len(coords) |->
                               create_a_star_node(nc, coords[k], target_coords, max_moves)]
        st2 == successors_loop(node_successors, 1, nc, st1, target_coords)
    IN  IF st2.status = "found" THEN st2
        ELSE IF DOMAIN st2.open_set = {}
        THEN [st2 EXCEPT !.status = "exhausted", !.path = <<nc>>]
        ELSE st2

\* Variant: the expanded node is not removed from open_set.
search_iteration_keeps_open(st, nc_pos, target_coords, max_moves, sz, walls, avoid_set) ==
    LET nc == st.open_set[nc_pos]
        st1 == [st EXCEPT !.closed_set = Put(@, nc_pos, nc),
                          !.iterations = @ + 1]
        coords == surrounding_valid_coords(sz, walls, nc.pos, max_moves, avoid_set)
        node_successors == [k \in 1 .. Len(coords) |->
                               create_a_star_node(nc, coords[k], target_coords, max_moves)]
        st2 == successors_loop(node_successors, 1, nc, st1, target_coords)
    IN  IF st2.status = "found" THEN st2
        ELSE IF DOMAIN st2.open_set = {}
        THEN [st2 EXCEPT !.status = "exhausted", !.path = <<st2.start_node>>]
        ELSE st2

\* One iteration of "while len(open_set)" that expands the open node at nc_pos;
\* when the loop ends without the target, the result is [start_node].
search_iteration(st, nc_pos, target_coords, max_moves, sz, walls, avoid_set) ==
    LET nc == st.open_set[nc_pos]
        st1 == [st EXCEPT !.open_set = Del(@, nc_pos),
                          !.closed_set = Put(@, nc_pos, nc),
                          !.iterations = @ + 1]
        coords == surrounding_valid_coords(sz, walls, nc.pos, max_moves, avoid_set)
        node_successors == [k \in 1 .. Len(coords) |->
                               create_a_star_node(nc, coords[k], target_coords, max_moves)]
        st2 == successors_loop(node_successors, 1, nc, st1, target_coords)
    IN  IF st2.status = "found" THEN st2
        ELSE IF DOMAIN st2.open_set = {}
        THEN [st2 EXCEPT !.status = "exhausted", !.path = <<st2.start_node>>]
        ELSE st2

search_successors(st, target_coords, max_moves, sz, walls, avoid_set) ==
    {search_iteration(st, p, target_coords, max_moves, sz, walls, avoid_set) :
        p \in least_f(st.open_set)}

\* Every outcome the loop can end with, over the choices among equal f.
RECURSIVE run_search(_, _, _, _, _, _, _)
run_search(running, finished, target_coords, max_moves, sz, walls, avoid_set) ==
    IF running = {} THEN finished
    ELSE
      LET next == UNION {search_successors(st, target_coords, max_moves, sz, walls,
                                           avoid_set) : st \in running}
      IN  run_search({st \in next : st.status = "running"},
                     finished \cup {[found |-> st.status = "found", path |-> st.path] :
                                       st \in {s \in next : s.status # "running"}},
                     target_coords, max_moves, sz, walls, avoid_set)

search_results(start_pos, target_coords, max_moves, sz, walls, avoid_set) ==
    run_search({start_search(start_pos, target_coords, max_moves)}, {},
               target_coords, max_moves, sz, walls, avoid_set)

(***************************************************************************)
(* Player: targets, interruptions, find_path                               *)
(***************************************************************************)
None == <<>>
NoCharacter == [kind |-> "none", position |-> None]

RECURSIVE insert_by_distance(_, _)
insert_by_distance(sorted, e) ==
    IF sorted = <<>> THEN <<e>>
    ELSE IF e.distance < Head(sorted).distance THEN <<e>> \o sorted
    ELSE <<Head(sorted)>> \o insert_by_distance(Tail(sorted), e)

\* sorted(list, key=distance) of a list, stable: equal keys keep the list's order.
RECURSIVE sorted_by_distance(_)
sorted_by_distance(list) ==
    IF list = <<>> THEN <<>>
    ELSE insert_by_distance(sorted_by_distance(SubSeq(list, 1, Len(list) - 1)),
                            list[Len(list)])

\* Variant: an apple that would be reached in its last tick is left out.
viable_apples_strict(character) ==
    LET with_distance == [k \in 1 .. Len(apples) |->
            [apple |-> apples[k],
             distance |-> distance(character.position, apples[k].position,
                                   character.max_moves_per_turn)]]
        in_time(e) == e.distance < e.apple.shelf_life
    IN  sorted_by_distance(SelectSeq(with_distance, in_time))

viable_apples(character) ==
    LET with_distance == [k \in 1 .. Len(apples) |->
            [apple |-> apples[k],
             distance |-> distance(character.position, apples[k].position,
                                   character.max_moves_per_turn)]]
        in_time(e) == e.distance <= e.apple.shelf_life
    IN  sorted_by_distance(SelectSeq(with_distance, in_time))

target_gone(player) ==
    IF Len(player.path) > 1
    THEN player.path[Len(player.path)].pos # player.target_character.position
    ELSE FALSE

\* Variant: the edge of the danger zone is left out.
in_danger_zone_excludes_edge(runner_position, chaser_position) ==
    LET chaser_distance == distance(runner_position, chaser_position, 1)
    IN  IF chaser_distance < CHASER_DANGER_ZONE THEN chaser_distance ELSE 0

\* Returns the distance to the chaser inside the danger zone, else 0.
in_danger_zone(runner_position, chaser_position) ==
    LET chaser_distance == distance(runner_position, chaser_position, 1)
    IN  IF chaser_distance <= CHASER_DANGER_ZONE THEN chaser_distance ELSE 0

\* path_interruptions is [target_gone] for the chaser and
\* [target_gone, in_danger_zone] for the runner; a result counts when truthy.
interrupt_path(player, who) ==
    \/ target_gone(player)
    \/ who = "runner" /\ in_danger_zone(runner.position, chaser.position) # 0

\* Variant: the chaser looks at the cell the runner stood on when the runner's
\* make_move of this turn began.
chaser_find_target_coords_start_of_turn(player) ==
    LET viable == viable_apples(chaser)
        seen == IF call["runner"].made THEN call["runner"].position ELSE runner.position
        runner_distance == distance(chaser.position, seen, 1)
    IN  IF Len(viable) > 0 /\ viable[1].distance < runner_distance
        THEN [target_coords |-> viable[1].apple.position,
              player |-> [player EXCEPT !.target_character =
                            [kind |-> "apple", position |-> viable[1].apple.position]]]
        ELSE [target_coords |-> seen,
              player |-> [player EXCEPT !.target_character =
                            [kind |-> "runner", position |-> seen]]]

\* Variant: an apple as far away as the runner is preferred to the runner.
chaser_find_target_coords_ties_to_apple(player) ==
    LET viable == viable_apples(chaser)
        runner_distance == distance(chaser.position, runner.position, 1)
    IN  IF Len(viable) > 0 /\ viable[1].distance <= runner_distance
        THEN [target_coords |-> viable[1].apple.position,
              player |-> [player EXCEPT !.target_character =
                            [kind |-> "apple", position |-> viable[1].apple.position]]]
        ELSE [target_coords |-> runner.position,
              player |-> [player EXCEPT !.target_character =
                            [kind |-> "runner", position |-> runner.position]]]

\* Variant: an apple in reach is preferred to the runner at any distance.
chaser_find_target_coords_apple_first(player) ==
    LET viable == viable_apples(chaser)
    IN  IF Len(viable) > 0
        THEN [target_coords |-> viable[1].apple.position,
              player |-> [player EXCEPT !.target_character =
                            [kind |-> "apple", position |-> viable[1].apple.position]]]
        ELSE [target_coords |-> runner.position,
              player |-> [player EXCEPT !.target_character =
                            [kind |-> "runner", position |-> runner.position]]]

\* ChaserPlayer.find_target_coords: the target and the player it leaves.
chaser_find_target_coords(player) ==
    LET viable == viable_apples(chaser)
        runner_distance == distance(chaser.position, runner.position, 1)
    IN  IF Len(viable) > 0 /\ viable[1].distance < runner_distance
        THEN [target_coords |-> viable[1].apple.position,
              player |-> [player EXCEPT !.target_character =
                            [kind |-> "apple", position |-> viable[1].apple.position]]]
        ELSE [target_coords |-> runner.position,
              player |-> [player EXCEPT !.target_character =
                            [kind |-> "runner", position |-> runner.position]]]

\* RunnerPlayer.find_target_coords.
runner_find_target_coords(player) ==
    LET viable == viable_apples(runner)
        around == surrounding_valid_coords(size, WALLS, chaser.position,
                                           AVOID_RADIUS, {})
        avoid == {around[k] : k \in 1 .. Len(around)}
    IN  IF Len(viable) > 0
        THEN [target_coords |-> viable[1].apple.position,
              player |-> [player EXCEPT !.avoid_set = avoid, !.target_character =
                            [kind |-> "apple", position |-> viable[1].apple.position]]]
        ELSE [target_coords |-> None,
              player |-> [player EXCEPT !.avoid_set = avoid]]

\* The cached path answers the call: it exists, the advanced progress is inside
\* it and no interruption is true.
cache_answers(player, who) ==
    /\ Len(player.path) > 0
    /\ player.path_progress + 1 < Len(player.path)
    /\ ~interrupt_path(player, who)

\* Variant: the cached path is sliced at path_progress before it is advanced.
find_path_slices_before_advance(player, who, character, target_coords) ==
    IF cache_answers(player, who)
    THEN {[player |-> [player EXCEPT !.path_progress = @ + 1],
           result |-> SubSeq(player.path, player.path_progress + 1, Len(player.path)),
           searched |-> FALSE, found |-> FALSE]}
    ELSE {[player |-> IF r.found
                      THEN [player EXCEPT !.path = r.path, !.path_progress = 0,
                                          !.avoid_set = @ \cup WALLS]
                      ELSE [player EXCEPT !.path_progress = @ + 1,
                                          !.avoid_set = @ \cup WALLS],
           result |-> r.path, searched |-> TRUE, found |-> r.found] :
            r \in search_results(character.position, target_coords,
                                 character.max_moves_per_turn, size, WALLS,
                                 player.avoid_set)}

\* find_path: every way the call can end, as the player it leaves, the list it
\* returns and whether the search ran and reached the target.
find_path(player, who, character, target_coords) ==
    IF cache_answers(player, who)
    THEN {[player |-> [player EXCEPT !.path_progress = @ + 1],
           result |-> SubSeq(player.path, player.path_progress + 2, Len(player.path)),
           searched |-> FALSE, found |-> FALSE]}
    ELSE {[player |-> IF r.found
                      THEN [player EXCEPT !.path = r.path, !.path_progress = 0,
                                          !.avoid_set = @ \cup WALLS]
                      ELSE [player EXCEPT !.path_progress = @ + 1,
                                          !.avoid_set = @ \cup WALLS],
           result |-> r.path, searched |-> TRUE, found |-> r.found] :
            r \in search_results(character.position, target_coords,
                                 character.max_moves_per_turn, size, WALLS,
                                 player.avoid_set)}

(***************************************************************************)
(* MovingCharacter.move                                                    *)
(***************************************************************************)
\* Variant: the check for a move along both axes is missing.
illegal_move_allows_diagonal(character, new_pos, sz) ==
    LET x_diff == Abs(character.position[1] - new_pos[1])
        y_diff == Abs(character.position[2] - new_pos[2])
    IN  \/ x_diff > character.max_moves_per_turn \/ y_diff > character.max_moves_per_turn
        \/ ~contains_coords(sz, new_pos)

\* The checks of move: TRUE when it raises IllegalMove.
illegal_move(character, new_pos, sz) ==
    LET x_diff == Abs(character.position[1] - new_pos[1])
        y_diff == Abs(character.position[2] - new_pos[2])
    IN  \/ x_diff # 0 /\ y_diff # 0
        \/ x_diff > character.max_moves_per_turn \/ y_diff > character.max_moves_per_turn
        \/ ~contains_coords(sz, new_pos)

\* Variant: a move that is made also counts a point.
move_and_score(character, new_pos, sz) ==
    IF illegal_move(character, new_pos, sz) THEN character
    ELSE [character EXCEPT !.position = new_pos, !.score = @ + 1]

\* MovingCharacter.move: the character it leaves.
move(character, new_pos, sz) ==
    IF illegal_move(character, new_pos, sz) THEN character
    ELSE [character EXCEPT !.position = new_pos]

(***************************************************************************)
(* Reachability on the grid, for the properties                            *)
(***************************************************************************)
\* The cells one move of at most m cells along one axis leads to from p.
ray_moves(p, m, blocked, sz) ==
    {c \in Cells(sz) \ blocked :
        \/ c[1] = p[1] /\ Abs(c[2] - p[2]) >= 1 /\ Abs(c[2] - p[2]) <= m
        \/ c[2] = p[2] /\ Abs(c[1] - p[1]) >= 1 /\ Abs(c[1] - p[1]) <= m}

RECURSIVE reach_closure(_, _, _, _)
reach_closure(reached, m, blocked, sz) ==
    LET more == reached \cup UNION {ray_moves(p, m, blocked, sz) : p \in reached}
    IN  IF more = reached THEN reached ELSE reach_closure(more, m, blocked, sz)

\* The cells reachable from start by such moves over cells that are not blocked.
reachable_cells(start, m, blocked, sz) == reach_closure({start}, m, blocked, sz)

(***************************************************************************)
(* Game                                                                    *)
(***************************************************************************)
Apple(position) == [position |-> position, shelf_life |-> ShelfLife]

\* Variant: refill_apples keeps every cell __random_coords returns.
refill_cells_any == Cells(size)

\* The cells __random_coords can return that refill_apples keeps.
refill_cells == Cells(size) \ WALLS

\* Variant: the refill adds one apple and stops.
refill_apples_adds_one(list) ==
    IF Len(list) >= APPLE_COUNT THEN {list}
    ELSE {Append(list, Apple(c)) : c \in refill_cells}

\* The lists refill_apples can leave: apples appended until APPLE_COUNT.
refill_apples(list) ==
    IF Len(list) >= APPLE_COUNT THEN {list}
    ELSE {list \o new : new \in [1 .. (APPLE_COUNT - Len(list)) -> {Apple(c) : c \in refill_cells}]}

\* The walls __main__ builds: two columns in the middle, open in the middle row.
main_walls(sz) ==
    LET x == sz[1] \div 2
    IN  {c \in Cells(sz) : c[2] # sz[2] \div 2 /\ (c[1] = x \/ c[1] = x - 1)}

Player == [path |-> None, path_progress |-> 0, avoid_set |-> {},
           target_character |-> NoCharacter]

\* What is recorded of a player's latest find_path call.
NoCall == [made |-> FALSE, searched |-> FALSE, found |-> FALSE, result |-> <<>>,
           position |-> None, target_coords |-> None, next_move |-> None,
           raised |-> FALSE, danger |-> FALSE, avoid_set |-> {}, reachable |-> FALSE,
           old_path |-> None, old_progress |-> 0,
           stale |-> FALSE, was_stale |-> FALSE, since |-> 0,
           from_path |-> FALSE, prev_from_path |-> FALSE, prev_result |-> <<>>]

NoSearch == [open_set |-> EmptyDict, closed_set |-> EmptyDict, came_from |-> EmptyDict,
             start_node |-> AStarNode(<<0, 0>>, 0, 0), status |-> "idle",
             path |-> <<>>, iterations |-> 0, overwritten |-> {}]

\* The inputs of the search that is followed step by step.
NoInputs == [position |-> <<0, 0>>, target_coords |-> <<0, 0>>, max_moves |-> 1,
             avoid_set |-> {}]

NoMove == [made |-> FALSE, raised |-> FALSE, new_pos |-> None, who |-> "none"]

\* What is recorded of the latest tick: whether it ended at the collision check,
\* the apples each character ate, the apples removed only for their age, the
\* apples eaten in the tick that also ended their shelf life and the apples the
\* refill added.
NoTick == [made |-> FALSE, caught |-> FALSE, runner_ate |-> 0, chaser_ate |-> 0,
           expired |-> 0, eaten_expired |-> 0, added |-> 0]

GameInit ==
    /\ size = <<GridW, GridH>>
    /\ WALLS = main_walls(size)
    /\ win_score = WinScore
    /\ runner = [position |-> <<0, size[2] - 1>>, score |-> 0,
                 max_moves_per_turn |-> RUNNER_MOVES]
    /\ chaser = [position |-> <<size[1] - 1, 0>>, score |-> 0,
                 max_moves_per_turn |-> CHASER_MOVES]
    /\ apples \in refill_apples(<<>>)
    /\ p_runner = Player
    /\ p_chaser = Player
    /\ pc = "runner"
    /\ outcome = "continuing"
    /\ turn = 0
    /\ call = [w \in {"runner", "chaser"} |-> NoCall]
    /\ search = NoSearch
    /\ inputs = NoInputs
    /\ mv = NoMove
    /\ tk = NoTick

\* The record of a find_path call: before is the player after
\* find_target_coords, r the way the call ended.
call_record(prev, before, who, character, target_coords, r) ==
    LET next_move == IF Len(r.result) > 1 THEN r.result[2].pos ELSE r.result[1].pos
        had_path == Len(before.path) > 0
    IN  [made |-> TRUE, searched |-> r.searched, found |-> r.found, result |-> r.result,
         position |-> character.position, target_coords |-> target_coords,
         next_move |-> next_move,
         raised |-> illegal_move(character, next_move, size),
         \* the runner is within the danger zone of the chaser
         danger |-> who = "runner"
                    /\ distance(runner.position, chaser.position, 1) <= CHASER_DANGER_ZONE,
         \* the cells the search of this call may not use
         avoid_set |-> before.avoid_set \cup WALLS,
         \* the target can be reached from the position by moves over other cells
         reachable |-> target_coords \in
                          reachable_cells(character.position, character.max_moves_per_turn,
                                          before.avoid_set \cup WALLS, size)
                          \ {character.position},
         old_path |-> before.path,
         old_progress |-> before.path_progress,
         \* the list in self.path has been found invalid by this or an earlier call
         stale |-> IF r.found THEN FALSE
                   ELSE prev.stale \/ (had_path /\ r.searched),
         was_stale |-> prev.stale,
         \* calls made since the list in self.path was computed
         since |-> IF r.found THEN 0 ELSE prev.since + 1,
         \* the result is the list in self.path or a suffix of it
         from_path |-> r.found \/ ~r.searched,
         prev_from_path |-> prev.from_path,
         prev_result |-> prev.result]

\* Player.make_move for a player whose find_target_coords gave ft.
make_move(who, character, ft, character_next, player_next) ==
    IF ft.target_coords = None
    THEN /\ character_next = character
         /\ player_next = ft.player
         /\ call' = [call EXCEPT ![who].made = FALSE]
         /\ outcome' = outcome
    ELSE \E r \in find_path(ft.player, who, character, ft.target_coords) :
            LET rec == call_record(call[who], ft.player, who, character,
                                   ft.target_coords, r)
            IN  /\ player_next = r.player
                /\ call' = [call EXCEPT ![who] = rec]
                /\ character_next = move(character, rec.next_move, size)
                /\ outcome' = IF rec.raised THEN "IllegalMove" ELSE outcome

RunnerMove ==
    /\ pc = "runner"
    /\ turn < MaxTurns
    /\ make_move("runner", runner, runner_find_target_coords(p_runner), runner', p_runner')
    /\ pc' = IF outcome' = "IllegalMove" THEN "done" ELSE "chaser"
    /\ UNCHANGED <<size, WALLS, win_score, chaser, apples, p_chaser, turn, search, inputs, mv, tk>>

ChaserMove ==
    /\ pc = "chaser"
    /\ make_move("chaser", chaser, chaser_find_target_coords(p_chaser), chaser', p_chaser')
    /\ pc' = IF outcome' = "IllegalMove" THEN "done" ELSE "tick"
    /\ UNCHANGED <<size, WALLS, win_score, runner, apples, p_runner, turn, search, inputs, mv, tk>>

\* Apple.decrease_shelf_life.
decrease_shelf_life(apple) == [apple EXCEPT !.shelf_life = @ - 1]

\* Variant: an apple is dropped when its shelf life reaches 0.
expired_at_zero(apple) == apple.shelf_life <= 0

\* The test of tick on an apple after its shelf life was decreased.
expired(apple) == apple.shelf_life < 0

\* Variant: an apple in its last tick is not scored.
eaten_by_unexpired(character, other) ==
    {k \in 1 .. Len(apples) : apples[k].position = character.position
                              /\ (other = None \/ apples[k].position # other)
                              /\ apples[k].shelf_life > 0}

\* Game.tick past the collision check: the scores, the list of apples left and
\* the refill.
eaten_by(character, other) ==
    {k \in 1 .. Len(apples) : apples[k].position = character.position
                              /\ (other = None \/ apples[k].position # other)}

\* Variant: the positions are compared with "is", which two tuples never pass.
caught_by_identity == FALSE

\* The first check of tick.
caught == chaser.position = runner.position

Tick ==
    /\ pc = "tick"
    /\ turn' = turn + 1
    /\ IF caught
       THEN /\ outcome' = "Lose"
            /\ pc' = "done"
            /\ UNCHANGED <<runner, chaser, apples>>
            /\ tk' = [NoTick EXCEPT !.made = TRUE, !.caught = TRUE]
       ELSE LET by_runner == eaten_by(runner, None)
                by_chaser == eaten_by(chaser, runner.position)
                aged == [k \in 1 .. Len(apples) |-> decrease_shelf_life(apples[k])]
                eaten_apples == by_runner \cup by_chaser
                                \cup {k \in 1 .. Len(apples) : expired(aged[k])}
                kept == SelectSeq([k \in 1 .. Len(apples) |-> [i |-> k, apple |-> aged[k]]],
                                  LAMBDA e : e.i \notin eaten_apples)
                left == [k \in 1 .. Len(kept) |-> kept[k].apple]
            IN  /\ runner' = [runner EXCEPT !.score = @ + Cardinality(by_runner)]
                /\ chaser' = [chaser EXCEPT !.score = @ + Cardinality(by_chaser)]
                /\ apples' \in refill_apples(left)
                /\ tk' = [made |-> TRUE, caught |-> FALSE,
                          runner_ate |-> Cardinality(by_runner),
                          chaser_ate |-> Cardinality(by_chaser),
                          expired |-> Cardinality(eaten_apples \ (by_runner \cup by_chaser)),
                          eaten_expired |-> Cardinality({k \in by_runner \cup by_chaser :
                                                           expired(aged[k])}),
                          added |-> Len(apples') - Len(left)]
                /\ outcome' = IF runner'.score >= win_score THEN "Win"
                              ELSE IF chaser'.score >= win_score THEN "Lose"
                              ELSE "continuing"
                /\ pc' = IF outcome' = "continuing" THEN "runner" ELSE "done"
    /\ UNCHANGED <<size, WALLS, win_score, p_runner, p_chaser, call, search, inputs, mv>>

Next == RunnerMove \/ ChaserMove \/ Tick

Spec == GameInit /\ [][Next]_vars

(***************************************************************************)
(* The game with calls of Score.decrease_score between its steps           *)
(***************************************************************************)
\* Variant: the score is assigned (self.score -= 1).
decrease_score_subtracts(character) == [character EXCEPT !.score = @ - 1]

\* Score.decrease_score: "self.score -+ 1" is an expression statement, the
\* difference is computed and dropped.
decrease_score(character) == character

\* decrease_score is called on a character that has a point; mv records the
\* callee and the score it had.
ScoreDecrease ==
    /\ outcome = "continuing"
    /\ \E who \in {"runner", "chaser"} :
          LET character == IF who = "runner" THEN runner ELSE chaser
          IN  /\ character.score >= 1
              /\ runner' = IF who = "runner" THEN decrease_score(runner) ELSE runner
              /\ chaser' = IF who = "chaser" THEN decrease_score(chaser) ELSE chaser
              /\ mv' = [made |-> TRUE, raised |-> FALSE, new_pos |-> None, who |-> who,
                        before |-> character.score]
    /\ UNCHANGED <<size, WALLS, win_score, apples, p_runner, p_chaser, pc, outcome,
                   turn, call, search, inputs, tk>>

ScoreNext == RunnerMove \/ ChaserMove \/ Tick \/ ScoreDecrease

SpecScore == GameInit /\ [][ScoreNext]_vars

(***************************************************************************)
(* One turn from a set-up position: 5x5 grid without walls, chaser at      *)
(* (4,4), runner at (0,0), one apple at (2,0) with shelf life 10           *)
(***************************************************************************)
ScenarioInit ==
    /\ size = <<5, 5>>
    /\ WALLS = {}
    /\ win_score = WinScore
    /\ runner = [position |-> <<0, 0>>, score |-> 0, max_moves_per_turn |-> RUNNER_MOVES]
    /\ chaser = [position |-> <<4, 4>>, score |-> 0, max_moves_per_turn |-> CHASER_MOVES]
    /\ apples = <<[position |-> <<2, 0>>, shelf_life |-> 10]>>
    /\ p_runner = Player
    /\ p_chaser = Player
    /\ pc = "runner"
    /\ outcome = "continuing"
    /\ turn = 0
    /\ call = [w \in {"runner", "chaser"} |-> NoCall]
    /\ search = NoSearch
    /\ inputs = NoInputs
    /\ mv = NoMove
    /\ tk = NoTick

ScenarioRunnerMove == turn = 0 /\ RunnerMove

ScenarioChaserMove == turn = 0 /\ ChaserMove

ScenarioTick == turn = 0 /\ Tick

ScenarioNext == ScenarioRunnerMove \/ ScenarioChaserMove \/ ScenarioTick

SpecScenario == ScenarioInit /\ [][ScenarioNext]_vars

(***************************************************************************)
(* The static functions of Grid, applied to drawn arguments                *)
(***************************************************************************)
\* Each behaviour applies one function once to the drawn arguments.
NoResult == [made |-> FALSE, op |-> "none", value |-> None, walls |-> {}, avoid_set |-> {}]

GeomInit ==
    /\ size = <<GeomW, GeomH>>
    /\ WALLS = {}
    /\ win_score = 1
    /\ runner = [position |-> <<0, 0>>, score |-> 0, max_moves_per_turn |-> RUNNER_MOVES]
    /\ chaser = [position |-> <<0, 0>>, score |-> 0, max_moves_per_turn |-> CHASER_MOVES]
    /\ apples = <<>>
    /\ p_runner = Player
    /\ p_chaser = Player
    /\ pc = "geom"
    /\ outcome = "continuing"
    /\ turn = 0
    /\ call = [w \in {"runner", "chaser"} |-> NoCall]
    /\ search = NoSearch
    /\ \E a \in Cells(size), b \in Cells(size), s \in 1 .. MaxBudget :
          inputs = [a |-> a, b |-> b, s |-> s]
    /\ mv = NoResult
    /\ tk = NoTick

GeomFrame ==
    UNCHANGED <<size, WALLS, win_score, runner, chaser, apples, p_runner, p_chaser,
                pc, outcome, turn, call, search, inputs, tk>>

GeomDistance ==
    /\ pc = "geom" /\ ~mv.made
    /\ mv' = [NoResult EXCEPT !.made = TRUE, !.op = "distance",
                              !.value = distance(inputs.a, inputs.b, inputs.s)]
    /\ GeomFrame

GeomNextPos ==
    /\ pc = "geom" /\ ~mv.made
    /\ mv' = [NoResult EXCEPT !.made = TRUE, !.op = "next_pos",
                              !.value = next_pos(inputs.a, inputs.b, inputs.s)]
    /\ GeomFrame

GeomDirection ==
    /\ pc = "geom" /\ ~mv.made
    /\ mv' = [NoResult EXCEPT !.made = TRUE, !.op = "direction",
                              !.value = direction(inputs.a, inputs.b)]
    /\ GeomFrame

\* The subsets of S with at most n elements.
RECURSIVE subsets_up_to(_, _)
subsets_up_to(S, n) ==
    IF n = 0 THEN {{}}
    ELSE LET smaller == subsets_up_to(S, n - 1)
         IN  smaller \cup {T \cup {c} : T \in smaller, c \in S}

\* surrounding_valid_coords(a, s, avoid_set) with WALLS = walls. The function
\* takes one position, so it is applied for the draws with b = a.
GeomNeighbours ==
    /\ pc = "geom" /\ ~mv.made
    /\ inputs.b = inputs.a
    /\ \E walls \in subsets_up_to(Cells(size), 1),
          avoid_set \in subsets_up_to(Cells(size), MaxAvoid) :
          mv' = [made |-> TRUE, op |-> "surrounding_valid_coords",
                 value |-> surrounding_valid_coords(size, walls, inputs.a, inputs.s, avoid_set),
                 walls |-> walls, avoid_set |-> avoid_set]
    /\ GeomFrame

\* heuristic_distance(b, a) of a player whose character moves s cells a turn.
GeomHeuristic ==
    /\ pc = "geom" /\ ~mv.made
    /\ mv' = [NoResult EXCEPT !.made = TRUE, !.op = "heuristic_distance",
                              !.value = heuristic_distance(inputs.b, inputs.a, inputs.s)]
    /\ GeomFrame

GeomNext ==
    GeomDistance \/ GeomNextPos \/ GeomDirection \/ GeomNeighbours \/ GeomHeuristic

SpecGeom == GeomInit /\ [][GeomNext]_vars

(***************************************************************************)
(* The search loop of find_path, one iteration per step                    *)
(***************************************************************************)
avoid_set_around(sz, walls, chaser_position) ==
    LET around == surrounding_valid_coords(sz, walls, chaser_position, AVOID_RADIUS, {})
    IN  {around[k] : k \in 1 .. Len(around)}

SearchInit ==
    /\ size = <<SearchW, SearchH>>
    /\ WALLS = {}
    /\ win_score = 1
    /\ runner = [position |-> <<0, 0>>, score |-> 0, max_moves_per_turn |-> RUNNER_MOVES]
    /\ chaser = [position |-> <<0, 0>>, score |-> 0, max_moves_per_turn |-> CHASER_MOVES]
    /\ apples = <<>>
    /\ p_runner = Player
    /\ p_chaser = Player
    /\ pc = "begin"
    /\ outcome = "continuing"
    /\ turn = 0
    /\ call = [w \in {"runner", "chaser"} |-> NoCall]
    /\ search = NoSearch
    /\ inputs = NoInputs
    /\ mv = NoMove
    /\ tk = NoTick

\* The walls are set up and find_path starts a search: one of the chaser (one
\* cell per move, nothing avoided) or one of the runner (two cells per move,
\* avoiding the cells around some chaser position), from and to cells that are
\* not walls.
SearchBegin ==
    /\ pc = "begin"
    /\ pc' = "search"
    /\ WALLS' \in {w \in SUBSET Cells(size) : Cardinality(w) <= MaxWalls}
    /\ \E position \in Cells(size) \ WALLS', target_coords \in Cells(size) \ WALLS' :
         /\ \/ inputs' = [position |-> position, target_coords |-> target_coords,
                          max_moves |-> CHASER_MOVES, avoid_set |-> {}]
            \/ \E c \in Cells(size) \ WALLS' :
                 inputs' = [position |-> position, target_coords |-> target_coords,
                            max_moves |-> RUNNER_MOVES,
                            avoid_set |-> avoid_set_around(size, WALLS', c)]
         /\ search' = start_search(position, target_coords, inputs'.max_moves)
    /\ UNCHANGED <<size, win_score, runner, chaser, apples, p_runner, p_chaser,
                   outcome, turn, call, mv, tk>>

SearchStep ==
    /\ pc = "search"
    /\ search.status = "running"
    /\ search' \in search_successors(search, inputs.target_coords, inputs.max_moves,
                                     size, WALLS, inputs.avoid_set)
    /\ UNCHANGED <<size, WALLS, win_score, runner, chaser, apples, p_runner, p_chaser,
                   pc, outcome, turn, call, inputs, mv, tk>>

SearchNext == SearchBegin \/ SearchStep

SpecSearch == SearchInit /\ [][SearchNext]_vars

(***************************************************************************)
(* The search loop on the open grid of the game's size, where routes of    *)
(* equal f reach a cell with different costs                               *)
(***************************************************************************)
OpenInit ==
    /\ size = <<GridW, GridH>>
    /\ WALLS = {}
    /\ win_score = 1
    /\ runner = [position |-> <<0, 0>>, score |-> 0, max_moves_per_turn |-> RUNNER_MOVES]
    /\ chaser = [position |-> <<0, 0>>, score |-> 0, max_moves_per_turn |-> CHASER_MOVES]
    /\ apples = <<>>
    /\ p_runner = Player
    /\ p_chaser = Player
    /\ pc = "open"
    /\ outcome = "continuing"
    /\ turn = 0
    /\ call = [w \in {"runner", "chaser"} |-> NoCall]
    /\ search = NoSearch
    /\ inputs = NoInputs
    /\ mv = NoMove
    /\ tk = NoTick

\* find_path starts a search of the chaser or of the runner, as in SearchBegin,
\* with WALLS = [] as the module sets it.
OpenBegin ==
    /\ pc = "open"
    /\ pc' = "search"
    /\ \E position \in Cells(size), target_coords \in Cells(size) :
         /\ \/ inputs' = [position |-> position, target_coords |-> target_coords,
                          max_moves |-> CHASER_MOVES, avoid_set |-> {}]
            \/ \E c \in Cells(size) :
                 inputs' = [position |-> position, target_coords |-> target_coords,
                            max_moves |-> RUNNER_MOVES,
                            avoid_set |-> avoid_set_around(size, WALLS, c)]
         /\ search' = start_search(position, target_coords, inputs'.max_moves)
    /\ UNCHANGED <<size, WALLS, win_score, runner, chaser, apples, p_runner, p_chaser,
                   outcome, turn, call, mv, tk>>

OpenNext == OpenBegin \/ SearchStep

SpecOpen == OpenInit /\ [][OpenNext]_vars

(***************************************************************************)
(* MovingCharacter.move called with any proposed position                  *)
(***************************************************************************)
MoveInit ==
    /\ size = <<SearchW, SearchH>>
    /\ WALLS = {}
    /\ win_score = 1
    /\ \E rp \in Cells(size), cp \in Cells(size) :
         /\ runner = [position |-> rp, score |-> 0, max_moves_per_turn |-> RUNNER_MOVES]
         /\ chaser = [position |-> cp, score |-> 0, max_moves_per_turn |-> CHASER_MOVES]
    /\ apples = <<>>
    /\ p_runner = Player
    /\ p_chaser = Player
    /\ pc = "move"
    /\ outcome = "continuing"
    /\ turn = 0
    /\ call = [w \in {"runner", "chaser"} |-> NoCall]
    /\ search = NoSearch
    /\ inputs = NoInputs
    /\ mv = NoMove
    /\ tk = NoTick

proposed_positions ==
    (-MoveMargin .. size[1] - 1 + MoveMargin) \X (-MoveMargin .. size[2] - 1 + MoveMargin)

MoveRunner ==
    /\ pc = "move"
    /\ \E new_pos \in proposed_positions :
         /\ runner' = move(runner, new_pos, size)
         /\ mv' = [made |-> TRUE, raised |-> illegal_move(runner, new_pos, size),
                   new_pos |-> new_pos, who |-> "runner"]
    /\ UNCHANGED <<size, WALLS, win_score, chaser, apples, p_runner, p_chaser, pc,
                   outcome, turn, call, search, inputs, tk>>

MoveChaser ==
    /\ pc = "move"
    /\ \E new_pos \in proposed_positions :
         /\ chaser' = move(chaser, new_pos, size)
         /\ mv' = [made |-> TRUE, raised |-> illegal_move(chaser, new_pos, size),
                   new_pos |-> new_pos, who |-> "chaser"]
    /\ UNCHANGED <<size, WALLS, win_score, runner, apples, p_runner, p_chaser, pc,
                   outcome, turn, call, search, inputs, tk>>

MoveNext == MoveRunner \/ MoveChaser

SpecMove == MoveInit /\ [][MoveNext]_vars

(***************************************************************************)
(* Properties                                                              *)
(***************************************************************************)
Players == {"runner", "chaser"}
character_of(w) == IF w = "runner" THEN runner ELSE chaser
player_of(w) == IF w = "runner" THEN p_runner ELSE p_chaser

\* a -> b is one move along one axis of 1 .. m cells.
one_ray_move(a, b, m) ==
    \/ a[1] = b[1] /\ Abs(a[2] - b[2]) >= 1 /\ Abs(a[2] - b[2]) <= m
    \/ a[2] = b[2] /\ Abs(a[1] - b[1]) >= 1 /\ Abs(a[1] - b[1]) <= m

\* C1: every result of find_path is a non-empty list whose first node is at the
\* position the agent has at the time of the call.
C1_ResultStartsAtPosition ==
    \A w \in Players :
        call[w].made =>
            /\ Len(call[w].result) >= 1
            /\ call[w].result[1].pos = call[w].position

\* C3: the position make_move passes to move differs from the agent's position
\* along at most one axis, by at most max_moves_per_turn cells, and is inside the
\* grid, so move never raises IllegalMove.
C3_MoveNeverIllegal ==
    /\ outcome # "IllegalMove"
    /\ \A w \in Players :
        call[w].made =>
            LET a == call[w].position
                b == call[w].next_move
                m == character_of(w).max_moves_per_turn
            IN  /\ a[1] = b[1] \/ a[2] = b[2]
                /\ Abs(a[1] - b[1]) <= m /\ Abs(a[2] - b[2]) <= m
                /\ b \in Cells(size)
                /\ ~call[w].raised

\* C5: once a find_path call has found the cached path invalid, no later call
\* of the agent answers from that path.
C5_InvalidPathNeverRead ==
    \A w \in Players :
        call[w].made /\ call[w].was_stale => call[w].searched

\* The search followed step by step has ended.
search_ended == pc = "search" /\ search.status \in {"found", "exhausted"}

search_blocked == inputs.avoid_set \cup WALLS

target_reachable ==
    inputs.target_coords \in reachable_cells(inputs.position, inputs.max_moves,
                                            search_blocked, size)

\* C2: for a target reachable by ray moves over cells that are in the grid, not
\* walls and not avoided, a fresh search returns a path that ends at the target
\* and whose consecutive positions differ along exactly one axis by 1 to
\* max_moves_per_turn cells.
C2_ReachableTargetPath ==
    search_ended /\ target_reachable =>
        /\ Len(search.path) >= 1
        /\ search.path[Len(search.path)].pos = inputs.target_coords
        /\ \A i \in 1 .. Len(search.path) - 1 :
              one_ray_move(search.path[i].pos, search.path[i + 1].pos, inputs.max_moves)

\* A runner's search around walls and avoided cells that found a path of three
\* moves or more, one of them two cells long.
C2_Witness ==
    /\ search_ended /\ target_reachable
    /\ search.status = "found"
    /\ inputs.max_moves = RUNNER_MOVES
    /\ WALLS # {} /\ inputs.avoid_set # {}
    /\ Len(search.path) >= 4
    /\ \E i \in 1 .. Len(search.path) - 1 :
          distance(search.path[i].pos, search.path[i + 1].pos, 1) = 2

\* The target of w's latest call could not be reached from where w stood.
call_target_unreachable(w) == ~call[w].reachable

C8_SearchTerminates ==
    pc = "search" =>
        /\ search.iterations <= Cardinality(Cells(size))
        /\ search.status = "running" => DOMAIN search.open_set # {}

\* A search for a target that cannot be reached ended after expanding five
\* cells or more.
C8_Witness ==
    /\ search_ended
    /\ search.status = "exhausted"
    /\ ~target_reachable
    /\ Cardinality(DOMAIN search.closed_set) >= 5

\* C9: move(new_pos) raises IllegalMove for every proposed position that
\* changes both axes, or changes one axis by more than max_moves_per_turn, or
\* lies outside the grid, and then leaves the position and all other state as
\* they were; every other proposed position is accepted and becomes the
\* character's position.
C9_MoveRejectsExactlyIllegal ==
    [][LET w == mv'.who
           old == character_of(w)
           new == IF w = "runner" THEN runner' ELSE chaser'
           p == mv'.new_pos
           m == old.max_moves_per_turn
           bad == \/ p[1] # old.position[1] /\ p[2] # old.position[2]
                  \/ Abs(p[1] - old.position[1]) > m
                  \/ Abs(p[2] - old.position[2]) > m
                  \/ p[1] < 0 \/ p[1] >= size[1] \/ p[2] < 0 \/ p[2] >= size[2]
       IN  /\ mv'.made
           /\ bad => /\ mv'.raised
                     /\ UNCHANGED <<size, WALLS, win_score, runner, chaser, apples,
                                    p_runner, p_chaser, pc, outcome, turn>>
           /\ ~bad => /\ ~mv'.raised
                      /\ new = [old EXCEPT !.position = p]
                      /\ IF w = "runner" THEN chaser' = chaser ELSE runner' = runner
                      /\ UNCHANGED <<size, WALLS, win_score, apples, p_runner,
                                     p_chaser, pc, outcome, turn>>
      ]_vars

\* A move of the runner along one axis and within its two cells was rejected
\* only because it leaves the grid, and the runner stayed.
C9_Witness ==
    /\ pc = "move" /\ mv.made /\ mv.raised /\ mv.who = "runner"
    /\ mv.new_pos \notin Cells(size)
    /\ mv.new_pos[2] = runner.position[2]
    /\ Abs(mv.new_pos[1] - runner.position[1]) = 2

\* C10: when the chaser and the runner are on the same cell after both moves,
\* tick ends the game with the chaser winning (Game.Lose), and leaves the scores
\* and the apples as they were.
C10_CollisionEndsGame ==
    [][pc = "tick" /\ chaser.position = runner.position =>
          /\ outcome' = "Lose" /\ pc' = "done"
          /\ runner'.score = runner.score /\ chaser'.score = chaser.score
          /\ apples' = apples]_vars

\* The game ended with both on one cell that holds an apple.
C10_Witness ==
    /\ pc = "done" /\ outcome = "Lose"
    /\ chaser.position = runner.position
    /\ \E k \in 1 .. Len(apples) : apples[k].position = runner.position
    /\ runner.score < win_score /\ chaser.score < win_score

\* C4: a call of find_path made with a cached path, the advanced path_progress
\* below its length and no interruption true runs no search and returns
\* path[k:] of the path as computed, k the number of calls since that search;
\* when the call before it also returned that path or a suffix of it, the result
\* is that result without its first node; and a search is run only when there is
\* no path or one of the two conditions fails.
C4_CacheReuse ==
    \A w \in Players :
        LET c == call[w]
            n == Len(c.old_path)
            in_range == c.old_progress + 1 < n
            gone == n > 0 /\ c.old_path[n].pos # c.target_coords
            usable == n > 0 /\ in_range /\ ~gone /\ ~c.danger
        IN  c.made =>
              /\ usable =>
                    /\ ~c.searched
                    /\ player_of(w).path = c.old_path
                    /\ c.result = SubSeq(c.old_path, c.since + 1, n)
                    /\ c.prev_from_path => c.result = Tail(c.prev_result)
              /\ c.searched => ~usable

\* A third call in a row answered from one path.
C4_Witness ==
    \E w \in Players :
        /\ call[w].made /\ ~call[w].searched /\ ~call[w].was_stale
        /\ call[w].since = 2
        /\ call[w].prev_from_path
        /\ Len(call[w].result) >= 2

\* C6: find_path does not answer from the cache when the last cell of the
\* cached path is not the position of the target tracked this turn, nor, for the
\* runner, when its distance to the chaser is at most the danger zone: it runs
\* a search.
C6_InterruptionForcesSearch ==
    \A w \in Players :
        LET c == call[w]
            n == Len(c.old_path)
        IN  c.made /\ n > 0 /\ (c.old_path[n].pos # c.target_coords \/ c.danger)
                => c.searched

\* The runner, in the danger zone with more of a cached path to its target
\* ahead, searched again.
C6_Witness ==
    LET c == call["runner"]
        n == Len(c.old_path)
    IN  /\ c.made /\ c.searched /\ c.danger
        /\ n > 0 /\ c.old_progress + 1 < n
        /\ c.old_path[n].pos = c.target_coords

\* C11: when both scores are at or above win_score at the end of one tick, the
\* chaser's score is looked at first and the tick ends with the chaser winning
\* (Game.Lose).
C11_PursuerThresholdFirst ==
    /\ tk.made /\ ~tk.caught
    /\ runner.score >= win_score /\ chaser.score >= win_score
    => outcome = "Lose"

\* The latest make_move of w took it from another cell to a cell with an apple.
landed_on_apple(w) ==
    /\ call[w].made
    /\ character_of(w).position = call[w].next_move
    /\ character_of(w).position # call[w].position
    /\ \E k \in 1 .. Len(apples) : apples[k].position = character_of(w).position

\* C12: when a character whose score is one below win_score has landed on an
\* apple cell on its move, the tick of that turn raises its score to win_score
\* (or past it) and ends the game with that character winning, whatever the
\* other did.
C12_LandingOnAppleWins ==
    [][pc = "tick" =>
          /\ landed_on_apple("runner") /\ runner.score = win_score - 1
                => runner'.score >= win_score /\ outcome' = "Win"
          /\ landed_on_apple("chaser") /\ chaser.score = win_score - 1
                => chaser'.score >= win_score /\ outcome' = "Lose"
      ]_vars

\* C13: in a turn the runner is resolved and moved first, the chaser second and
\* tick runs after both; what the chaser's make_move reads of the runner (its
\* target, the test of its cached path, the end of the path it searches) is the
\* position the runner has after its move of this turn.
C13_SecondSeesUpdatedFirst ==
    [][/\ pc = "runner" => pc' \in {"chaser", "done"} /\ chaser' = chaser /\ tk' = tk
       /\ pc = "tick" => pc' \in {"runner", "done"} /\ tk'.made
       /\ pc = "chaser" =>
             LET c == call'["chaser"]
                 n == Len(p_chaser'.path)
             IN  /\ pc' \in {"tick", "done"} /\ runner' = runner /\ tk' = tk
                 /\ p_chaser'.target_character.kind = "runner" =>
                       /\ c.target_coords = runner.position
                       /\ p_chaser'.target_character.position = runner.position
                       /\ c.found \/ ~c.searched => p_chaser'.path[n].pos = runner.position
      ]_vars

\* The runner moved this turn; the chaser, holding a path to the cell the runner
\* left, searched again and found a path to the cell the runner is on now.
C13_Witness ==
    LET c == call["chaser"]
        n == Len(c.old_path)
    IN  /\ pc = "tick"
        /\ call["runner"].made /\ runner.position # call["runner"].position
        /\ p_chaser.target_character.kind = "runner"
        /\ n > 0 /\ c.old_path[n].pos = call["runner"].position
        /\ c.searched /\ c.found
        /\ c.result[Len(c.result)].pos = runner.position

\* C14: in every state of the game the position of each character and of each
\* apple is inside the grid and is not a wall.
C14_PositionsValid ==
    \A p \in {runner.position, chaser.position}
              \cup {apples[k].position : k \in 1 .. Len(apples)} :
        contains_coords(size, p) /\ p \notin WALLS

\* The chaser has left its start cell, the runner has just moved two cells to
\* a row that holds walls, and the last tick added an apple.
C14_Witness ==
    /\ tk.made /\ tk.added > 0
    /\ chaser.position # <<size[1] - 1, 0>>
    /\ call["runner"].made
    /\ distance(call["runner"].position, runner.position, 1) = 2
    /\ \E w \in WALLS : w[2] = runner.position[2]

\* C15: the refill puts a new apple only on a cell that holds no apple, so in
\* every state of the game no two apples share a position.
C15_ApplesOnDistinctCells ==
    \A i, j \in 1 .. Len(apples) :
        i # j => apples[i].position # apples[j].position

\* C16: after construction and after every tick that gets past the collision
\* check, a tick that ends with a win by score included, there are APPLE_COUNT
\* apples, and the apples that refill added (the last ones of the list) carry
\* the initial shelf life while the apples kept have aged.
C16_RefillToCount ==
    ~tk.caught =>
        LET n == Len(apples)
            added == IF tk.made THEN tk.added ELSE APPLE_COUNT
        IN  /\ n = APPLE_COUNT
            /\ \A k \in n - added + 1 .. n : apples[k].shelf_life = ShelfLife
            /\ \A k \in 1 .. n - added : apples[k].shelf_life < ShelfLife

\* The tick that ended the game with a win by score ate one apple, kept the
\* other and added one.
C16_Witness ==
    /\ pc = "done" /\ outcome \in {"Win", "Lose"}
    /\ tk.made /\ ~tk.caught
    /\ tk.added = 1
    /\ Len(apples) = APPLE_COUNT
    /\ apples[1].shelf_life < ShelfLife /\ apples[2].shelf_life = ShelfLife

\* C17: an apple that no character is on loses exactly 1 of its shelf life in
\* every tick that gets past the collision check; it is kept while the result
\* is 0 or more and removed in the tick that takes it below 0. So an apple made
\* with shelf life L that is never eaten is there after each of the next L such
\* ticks and gone after tick L + 1.
C17_ApplesAgeAndExpire ==
    [][pc = "tick" /\ chaser.position # runner.position =>
          LET uneaten(a) == a.position \notin {runner.position, chaser.position}
              survivors == SelectSeq(apples, LAMBDA a : uneaten(a) /\ a.shelf_life >= 1)
              m == Len(survivors)
          IN  /\ Len(apples') >= m
              /\ \A k \in 1 .. m :
                    /\ apples'[k].position = survivors[k].position
                    /\ apples'[k].shelf_life = survivors[k].shelf_life - 1
              \* every other apple of the new list was added by this tick
              /\ Len(apples') - m = tk'.added
              /\ \A k \in m + 1 .. Len(apples') : apples'[k].shelf_life = ShelfLife
      ]_vars

\* An apple made at construction was never eaten, was still there with shelf
\* life 0 after ShelfLife ticks and was removed for its age by the next tick.
C17_Witness ==
    /\ tk.made /\ ~tk.caught
    /\ tk.expired >= 1
    /\ turn = ShelfLife + 1

\* The apples on the cell of character c.
apples_under(c) == {k \in 1 .. Len(apples) : apples[k].position = c.position}

in_reach(c, from) ==
    {k \in 1 .. Len(apples) :
        distance(from, apples[k].position, c.max_moves_per_turn) <= apples[k].shelf_life}

nearest_in_reach(c, from) ==
    {k \in in_reach(c, from) :
        \A j \in in_reach(c, from) :
            distance(from, apples[k].position, c.max_moves_per_turn)
                <= distance(from, apples[j].position, c.max_moves_per_turn)}

\* C19: the chaser's target is the position of a nearest apple among those whose
\* distance from the chaser is at most their shelf life, when that distance is
\* strictly less than the chaser's distance to the runner; in every other case
\* it is the runner's position; the tracked target is that apple or the runner.
C19_PursuerTarget ==
    pc = "tick" =>
        LET c == call["chaser"]
            near == nearest_in_reach(chaser, c.position)
            runner_distance == distance(c.position, runner.position, 1)
            t == p_chaser.target_character
        IN  /\ c.made
            /\ IF \E k \in near :
                     distance(c.position, apples[k].position, CHASER_MOVES) < runner_distance
               THEN \E k \in near :
                        /\ c.target_coords = apples[k].position
                        /\ t = [kind |-> "apple", position |-> apples[k].position]
               ELSE /\ c.target_coords = runner.position
                    /\ t = [kind |-> "runner", position |-> runner.position]

\* The chaser chose the runner with an apple in reach exactly as far away as
\* the runner, and another apple nearer but out of reach of its shelf life.
C19_Witness ==
    LET c == call["chaser"]
        runner_distance == distance(c.position, runner.position, 1)
    IN  /\ pc = "tick" /\ c.made
        /\ p_chaser.target_character.kind = "runner"
        /\ \E k \in in_reach(chaser, c.position) :
               distance(c.position, apples[k].position, CHASER_MOVES) = runner_distance
        /\ \E k \in 1 .. Len(apples) :
               /\ k \notin in_reach(chaser, c.position)
               /\ distance(c.position, apples[k].position, CHASER_MOVES) < runner_distance

\* C20: the runner's target is the position of a nearest apple among those
\* whose distance from the runner (two cells per move) is at most their shelf
\* life, wherever the chaser is; when there is none its make_move calls no
\* find_path and leaves its position, its path and its path_progress.
C20_EvaderTarget ==
    [][pc = "runner" =>
          LET near == nearest_in_reach(runner, runner.position)
              c == call'["runner"]
          IN  IF near = {}
              THEN /\ ~c.made
                   /\ runner' = runner
                   /\ p_runner'.path = p_runner.path
                   /\ p_runner'.path_progress = p_runner.path_progress
              ELSE /\ c.made
                   /\ \E k \in near :
                         /\ c.target_coords = apples[k].position
                         /\ p_runner'.target_character =
                               [kind |-> "apple", position |-> apples[k].position]
      ]_vars

\* The runner, holding a path it found earlier, had no apple in reach this turn
\* and stayed, inside the chaser's danger zone.
C20_Witness ==
    /\ pc = "chaser" /\ turn >= 1
    /\ ~call["runner"].made
    /\ Len(p_runner.path) > 1
    /\ nearest_in_reach(runner, runner.position) = {}
    /\ distance(runner.position, chaser.position, 1) <= CHASER_DANGER_ZONE

\* The cells within the danger zone of the chaser that are not walls.
danger_cells ==
    {c \in Cells(size) \ WALLS : distance(c, chaser.position, 1) <= CHASER_DANGER_ZONE}

\* C21: the set a search of the runner avoids, on top of the walls, is the set
\* of all cells within the danger zone (CHASER_DANGER_ZONE) of the chaser's
\* position.
C21_AvoidSetIsDangerZone ==
    pc = "chaser" /\ call["runner"].made /\ call["runner"].searched
        => call["runner"].avoid_set \ WALLS = danger_cells

\* C22 as stated: in the set-up turn, after both moves, the runner's target is
\* (2,0) and it has made a legal move toward it along x; the chaser's target is
\* the runner's start cell (0,0) and the chaser has moved one cell toward it.
C22_ScenarioFirstTurn ==
    pc = "tick" /\ turn = 0 =>
        /\ call["runner"].made /\ call["runner"].target_coords = <<2, 0>>
        /\ runner.position \in {<<1, 0>>, <<2, 0>>}
        /\ call["chaser"].made /\ call["chaser"].target_coords = <<0, 0>>
        /\ chaser.position \in {<<3, 4>>, <<4, 3>>}

\* C22 amended: the runner is resolved first; its target is (2,0) and it moves
\* there in one legal move of two cells along x; the chaser then targets the
\* runner on its new cell (2,0) and moves one cell toward it.
C22_ScenarioFirstTurnRunnerFirst ==
    pc = "tick" /\ turn = 0 =>
        /\ call["runner"].made /\ call["runner"].target_coords = <<2, 0>>
        /\ ~call["runner"].raised /\ runner.position = <<2, 0>>
        /\ call["chaser"].made /\ call["chaser"].target_coords = <<2, 0>>
        /\ p_chaser.target_character = [kind |-> "runner", position |-> <<2, 0>>]
        /\ ~call["chaser"].raised /\ chaser.position \in {<<3, 4>>, <<4, 3>>}

\* Both have moved in the set-up turn, the chaser up its column.
C22_Witness ==
    /\ pc = "tick" /\ turn = 0
    /\ size = <<5, 5>> /\ WALLS = {}
    /\ call["runner"].position = <<0, 0>> /\ runner.position = <<2, 0>>
    /\ call["chaser"].position = <<4, 4>> /\ chaser.position = <<4, 3>>

\* C23: a make_move changes only the moving character's position and its own
\* player's path, path_progress, avoid_set and target_character: the other
\* character and its player, both scores, the apples and WALLS stay as they are
\* (no avoided cell becomes a wall); scores and apples change only in tick.
C23_MakeMoveFrame ==
    [][/\ pc = "runner" =>
             /\ chaser' = chaser /\ p_chaser' = p_chaser
             /\ runner' = [runner EXCEPT !.position = runner'.position]
       /\ pc = "chaser" =>
             /\ runner' = runner /\ p_runner' = p_runner
             /\ chaser' = [chaser EXCEPT !.position = chaser'.position]
       /\ pc \in {"runner", "chaser"} => apples' = apples /\ WALLS' = WALLS
       /\ (runner'.score # runner.score \/ chaser'.score # chaser.score
             \/ apples' # apples) => pc = "tick"
      ]_vars

\* Both characters moved this turn, the runner after a search that avoided
\* cells around the chaser, and both players hold a path.
C23_Witness ==
    /\ pc = "tick"
    /\ call["runner"].made /\ call["runner"].searched
    /\ call["runner"].avoid_set \ WALLS # {}
    /\ runner.position # call["runner"].position
    /\ call["chaser"].made /\ chaser.position # call["chaser"].position
    /\ Len(p_runner.path) > 1 /\ Len(p_chaser.path) > 1

\* C24: distance(a, b, s) is the ceiling of (|ax-bx| + |ay-by|) / s, that is the
\* least n with n * s at or above the sum; it is 0 exactly when a = b and it is
\* the same for (b, a).
C24_DistanceIsCeiling ==
    mv.made /\ mv.op = "distance" =>
        LET a == inputs.a
            b == inputs.b
            s == inputs.s
            manhattan == Abs(a[1] - b[1]) + Abs(a[2] - b[2])
        IN  /\ mv.value \in Nat
            /\ mv.value * s >= manhattan
            /\ (mv.value - 1) * s < manhattan
            /\ (mv.value = 0) <=> (a = b)
            /\ distance(b, a, s) = mv.value

\* A distance that is rounded up: 3 cells at 2 per move take 2 moves.
C24_Witness ==
    /\ mv.made /\ mv.op = "distance"
    /\ inputs.s = 2
    /\ Abs(inputs.a[1] - inputs.b[1]) = 2 /\ Abs(inputs.a[2] - inputs.b[2]) = 1
    /\ mv.value = 2

\* C25: next_pos(a, b, s) is a when a = b and otherwise differs from a along
\* exactly one axis: the axis with the larger absolute offset to b, the y axis
\* when the two are equal; it moves toward b by the lesser of that offset and
\* s, so it neither passes b on that axis nor moves more than s cells.
C25_NextPosGreedyStep ==
    mv.made /\ mv.op = "next_pos" =>
        LET a == inputs.a
            b == inputs.b
            s == inputs.s
            p == mv.value
            dx == Abs(a[1] - b[1])
            dy == Abs(a[2] - b[2])
            step(from, to, by) == IF from < to THEN from + by ELSE from - by
        IN  IF a = b THEN p = a
            ELSE IF dy >= dx
                 THEN /\ p[1] = a[1]
                      /\ p[2] = step(a[2], b[2], IF dy < s THEN dy ELSE s)
                      /\ p[2] # a[2]
                      /\ Abs(p[2] - b[2]) = dy - Abs(p[2] - a[2])
                 ELSE /\ p[2] = a[2]
                      /\ p[1] = step(a[1], b[1], IF dx < s THEN dx ELSE s)
                      /\ p[1] # a[1]
                      /\ Abs(p[1] - b[1]) = dx - Abs(p[1] - a[1])

\* Equal offsets of one cell with a budget of two: one cell along y.
C25_Witness ==
    /\ mv.made /\ mv.op = "next_pos"
    /\ inputs.s = 2
    /\ Abs(inputs.a[1] - inputs.b[1]) = 1 /\ Abs(inputs.a[2] - inputs.b[2]) = 1
    /\ mv.value[1] = inputs.a[1] /\ mv.value[2] = inputs.b[2]

\* The direction from a toward b along x and along y ("none" for no offset);
\* NORTH is toward smaller y, as in coords_for_direction.
toward_x(a, b) == IF b[1] < a[1] THEN "WEST" ELSE IF b[1] > a[1] THEN "EAST" ELSE "none"

toward_y(a, b) == IF b[2] < a[2] THEN "NORTH" ELSE IF b[2] > a[2] THEN "SOUTH" ELSE "none"

\* C26: for a # b, direction(a, b) has as primary the direction from a toward b
\* along the axis with the larger absolute offset, x when the two are equal,
\* and as secondary the direction toward b along the other axis, or none when
\* there is no offset on it.
C26_DirectionPrimarySecondary ==
    mv.made /\ mv.op = "direction" /\ inputs.a # inputs.b =>
        LET a == inputs.a
            b == inputs.b
            secondary == mv.value[2]
        IN  IF Abs(a[1] - b[1]) >= Abs(a[2] - b[2])
            THEN mv.value[1] = toward_x(a, b) /\ secondary = toward_y(a, b)
            ELSE mv.value[1] = toward_y(a, b) /\ secondary = toward_x(a, b)

\* The cells on the four axis-aligned rays from a at offsets 1 .. r.
on_ray(a, c, r) ==
    \/ c[2] = a[2] /\ Abs(c[1] - a[1]) \in 1 .. r
    \/ c[1] = a[1] /\ Abs(c[2] - a[2]) \in 1 .. r

\* C27: surrounding_valid_coords(a, r, avoid_set) returns, each once, exactly
\* the cells at offsets 1 .. r on the four rays from a that are inside the
\* grid, not a wall and not avoided, whatever the nearer cells of the ray are.
C27_RayNeighboursExact ==
    mv.made /\ mv.op = "surrounding_valid_coords" =>
        /\ \A i, j \in 1 .. Len(mv.value) : mv.value[i] = mv.value[j] => i = j
        /\ {mv.value[i] : i \in 1 .. Len(mv.value)} =
               {c \in Cells(size) : on_ray(inputs.a, c, inputs.s)
                                      /\ c \notin mv.walls /\ c \notin mv.avoid_set}

\* A returned cell two steps away on a ray whose first cell is a wall or avoided.
C27_Witness ==
    /\ mv.made /\ mv.op = "surrounding_valid_coords"
    /\ \E i \in 1 .. Len(mv.value) :
          LET c == mv.value[i]
              mid == <<(c[1] + inputs.a[1]) \div 2, (c[2] + inputs.a[2]) \div 2>>
          IN  /\ Abs(c[1] - inputs.a[1]) + Abs(c[2] - inputs.a[2]) = 2
              /\ mid \in mv.walls \cup mv.avoid_set

\* C28: the path a search computes starts at the agent's position with g = 0
\* and its node costs g never decrease from one node to the next, also when a
\* came_from entry was overwritten by a cheaper route during the search.
C28_PathCostsNonDecreasing ==
    pc = "search" /\ search.status = "found" =>
        /\ search.path[1].pos = inputs.position
        /\ search.path[1].g = 0
        /\ \A i \in 1 .. Len(search.path) - 1 : search.path[i].g <= search.path[i + 1].g

\* A found path through a cell whose came_from entry was overwritten.
C28_Witness ==
    /\ pc = "search" /\ search.status = "found"
    /\ \E i \in 1 .. Len(search.path) : search.path[i].pos \in search.overwritten

\* The least number of ray moves that lead from the cells in reached to target,
\* n of them having been made; -1 when there is no such route.
RECURSIVE moves_to(_, _, _, _, _, _)
moves_to(reached, target, m, blocked, sz, n) ==
    IF target \in reached THEN n
    ELSE LET more == reached \cup UNION {ray_moves(p, m, blocked, sz) : p \in reached}
         IN  IF more = reached THEN -1
             ELSE moves_to(more, target, m, blocked, sz, n + 1)

\* C29: the path a search finds has the least number of moves: as many as the
\* shortest route of ray moves (1 .. max_moves cells along one axis onto a
\* cell that is in the grid, not a wall and not avoided) from the position to
\* the target, although the search returns when the target is generated.
C29_FoundPathIsShortest ==
    pc = "search" /\ search.status = "found" =>
        Len(search.path) - 1 =
            moves_to({inputs.position}, inputs.target_coords, inputs.max_moves,
                     inputs.avoid_set \cup WALLS, size, 0)

\* A search that returned a path of three or more moves, more than the
\* heuristic estimate of the start because of the walls, while open nodes were
\* left unexpanded.
C29_Witness ==
    /\ pc = "search" /\ search.status = "found"
    /\ Len(search.path) >= 4
    /\ WALLS # {}
    /\ DOMAIN search.open_set # {}
    /\ Len(search.path) - 1 >
          heuristic_distance(inputs.target_coords, inputs.position, inputs.max_moves)

\* C30: among the open nodes of equal least f the one inserted into the open
\* set first is expanded. After the first iteration the open set holds the
\* successors of the start node, inserted in the order surrounding_valid_coords
\* lists them, so the second iteration expands the first of them of least f.
C30_FirstInsertedExpanded ==
    pc = "search" /\ search.iterations = 2 =>
        LET coords == surrounding_valid_coords(size, WALLS, inputs.position,
                                               inputs.max_moves, inputs.avoid_set)
            f(k) == create_a_star_node(search.start_node, coords[k],
                                       inputs.target_coords, inputs.max_moves).f
            least == {k \in 1 .. Len(coords) : \A j \in 1 .. Len(coords) : f(k) <= f(j)}
            first == CHOOSE k \in least : \A j \in least : k <= j
        IN  coords[first] \in DOMAIN search.closed_set

\* The outcomes the search just begun can end with, one for each way of
\* choosing among open nodes of equal least f.
outcomes ==
    search_results(inputs.position, inputs.target_coords, inputs.max_moves,
                   size, WALLS, inputs.avoid_set)

\* C31: for one start, target, set of walls and avoid set, every choice among
\* open nodes of equal least f ends the search the same way: all find the
\* target or none does, and all returned paths have the same number of moves.
C31_TieBreakKeepsCost ==
    pc = "search" /\ search.iterations = 0 =>
        \A r1 \in outcomes, r2 \in outcomes :
            r1.found = r2.found /\ Len(r1.path) = Len(r2.path)

\* A search begun whose choices lead to different paths to the target.
C31_Witness ==
    /\ pc = "search" /\ search.iterations = 0
    /\ \E r1 \in outcomes, r2 \in outcomes :
          r1.found /\ r2.found /\ r1.path # r2.path /\ Len(r1.path) >= 3

\* The quotient of two naturals, rounded up.
ceil_div(n, d) == (n + d - 1) \div d

\* C32: heuristic_distance(b, a) ends and returns ceil(|dx|/s) + ceil(|dy|/s)
\* for the budget s; it is 0 exactly when a = b, it is at most the number of
\* moves of the shortest route from a to b whatever cells are blocked, and it
\* differs by at most 1 between a and any cell one legal move away from a.
C32_HeuristicEstimate ==
    mv.made /\ mv.op = "heuristic_distance" =>
        LET a == inputs.a
            b == inputs.b
            m == inputs.s
        IN  /\ mv.value = ceil_div(Abs(a[1] - b[1]), m) + ceil_div(Abs(a[2] - b[2]), m)
            /\ (mv.value = 0) = (a = b)
            /\ \A blocked \in subsets_up_to(Cells(size), MaxAvoid) :
                  LET least == moves_to({a}, b, m, blocked, size, 0)
                  IN  least # -1 => mv.value <= least
            /\ \A c \in Cells(size) :
                  one_ray_move(a, c, m) =>
                      Abs(heuristic_distance(b, c, m) - mv.value) <= 1

\* An estimate with a budget of two cells, for a target off both axes of the
\* position, that is greater than Grid.distance of the two positions.
C32_Witness ==
    /\ mv.made /\ mv.op = "heuristic_distance"
    /\ inputs.s = 2
    /\ inputs.a[1] # inputs.b[1] /\ inputs.a[2] # inputs.b[2]
    /\ mv.value > distance(inputs.a, inputs.b, inputs.s)

\* C33: when the runner's make_move changes its cell, the new cell is not in
\* the avoid set find_target_coords computed from the chaser's position in the
\* same make_move, also when the move is taken from a path found earlier.
C33_RunnerMoveOutsideAvoidSet ==
    pc = "chaser" /\ call.runner.made /\ ~call.runner.raised
                  /\ runner.position # call.runner.position =>
        runner.position \notin call.runner.avoid_set

\* C34: right after the runner's make_move and before the chaser's, the runner
\* is not on the cell of the chaser.
C34_RunnerNeverStepsOnChaser ==
    pc = "chaser" => runner.position # chaser.position

====
